---- MODULE Spec2Model ----
(***************************************************************************)
(* Model of useProgressiveFrameloop                                        *)
(* (packages/renderer/src/features/canvas/use-progressive-frameloop.tsx).  *)
(*                                                                         *)
(* The hook keeps three refs (timerRef, intervalIndexRef, isActiveRef),    *)
(* arms one setTimeout at a time whose callback invalidates the canvas,    *)
(* advances the interval index and re-arms itself, and reacts to window    *)
(* events and to the "self:request-reset-error-boundary" bridge event.     *)
(*                                                                         *)
(* The JavaScript runtime is modelled by its table of pending timeouts     *)
(* (timers), by the listeners attached to window (listeners) and by the    *)
(* bridge subscription (hmrSubscribed).  Every handler runs to completion  *)
(* in one step (single-threaded event loop).  Time passes in Tick steps;   *)
(* a timeout becomes due when the time elapsed since it was armed equals   *)
(* its delay.                                                              *)
(***************************************************************************)
EXTENDS Integers, Sequences, FiniteSets

\* ------------------------------------------------------------------------
\* Program constants
\* ------------------------------------------------------------------------

\* const PROGRESSIVE_INTERVALS = [16, 16, 33, 66, 133, 266, 533, 1000]
\* (a JavaScript array is indexed from 0, a TLA+ sequence from 1).
PROGRESSIVE_INTERVALS == <<16, 16, 33, 66, 133, 266, 533, 1000>>

\* PROGRESSIVE_INTERVALS.length
IntervalsLength == Len(PROGRESSIVE_INTERVALS)

\* The literal of "PROGRESSIVE_INTERVALS[...] || 1000".
FallbackInterval == 1000

\* const interactionEvents = [...]
interactionEvents ==
  {"mousemove", "mousedown", "mouseup", "wheel", "keydown", "touchstart", "touchmove"}

\* Every event name the hook attaches a window listener for.
WindowEvents == {"focus", "blur"} \cup interactionEvents

\* ------------------------------------------------------------------------
\* Bounds of the model
\* ------------------------------------------------------------------------

\* Number of setTimeout calls explored (timeout ids are never reused).
MaxTimers == 10

\* Number of runs of the effect (mount, and re-runs after a cleanup).
MaxStarts == 2

\* ------------------------------------------------------------------------
\* State
\* ------------------------------------------------------------------------

VARIABLES
  timerRef,          \* timerRef.current: 0 for null, else a timeout id
  intervalIndexRef,  \* intervalIndexRef.current (0-based)
  isActiveRef,       \* isActiveRef.current
  timers,            \* runtime: pending timeouts [id, delay, elapsed]
  nextTimerId,       \* runtime: id the next setTimeout returns
  listeners,         \* runtime: window event names with a listener attached
  hmrSubscribed,     \* bridge: the reset event has a subscriber
  phase,             \* effect lifecycle: "constructed", "started", "torndown"
  startCount,        \* number of effect runs so far
  invalidateCount,   \* history: number of invalidate() calls
  armed,             \* history: delays armed since the chain (re)started
  chainFrom,         \* history: what started the chain, and at which index
  calls,             \* history: what the handler that ran last did, in order
  last               \* history: handler that ran last, with the refs before it

vars ==
  <<timerRef, intervalIndexRef, isActiveRef, timers, nextTimerId, listeners,
    hmrSubscribed, phase, startCount, invalidateCount, armed, chainFrom, calls,
    last>>

\* The part of the state the hook's callbacks read and write, as a record
\* that the callbacks below transform statement by statement.
Cur ==
  [timerRef         |-> timerRef,
   intervalIndexRef |-> intervalIndexRef,
   isActiveRef      |-> isActiveRef,
   timers           |-> timers,
   nextTimerId      |-> nextTimerId,
   invalidateCount  |-> invalidateCount,
   calls            |-> <<>>]

Commit(s) ==
  /\ timerRef' = s.timerRef
  /\ intervalIndexRef' = s.intervalIndexRef
  /\ isActiveRef' = s.isActiveRef
  /\ timers' = s.timers
  /\ nextTimerId' = s.nextTimerId
  /\ invalidateCount' = s.invalidateCount
  /\ calls' = s.calls

\* Snapshot kept in the history variable last.
Ran(op) ==
  [op |-> op, index |-> intervalIndexRef, active |-> isActiveRef,
   timers |-> timers]

\* ------------------------------------------------------------------------
\* Runtime primitives
\* ------------------------------------------------------------------------

\* clearTimeout(id): the timeout with that id is no longer pending.
clearTimeout(pending, id) == {t \in pending : t.id # id}

\* setTimeout(cb, delay): a new pending timeout with a fresh id, which the
\* caller stores in timerRef.current.
setTimeout(s, delay) ==
  [s EXCEPT !.timers = @ \cup {[id |-> s.nextTimerId, delay |-> delay, elapsed |-> 0]},
            !.timerRef = s.nextTimerId,
            !.nextTimerId = @ + 1,
            !.calls = Append(@, "setTimeout")]

\* invalidate() of useThree: one redraw request.
invalidate(s) ==
  [s EXCEPT !.invalidateCount = @ + 1, !.calls = Append(@, "invalidate")]

\* ------------------------------------------------------------------------
\* The hook's callbacks
\* ------------------------------------------------------------------------

\* Faulty variant: drops the handle without clearTimeout.
clearTimer_NoCancel(s) == [s EXCEPT !.timerRef = 0]

\* clearTimer: if (timerRef.current) { clearTimeout(...); timerRef.current = null }
clearTimer(s) ==
  IF s.timerRef # 0
    THEN [s EXCEPT !.timers = clearTimeout(@, s.timerRef), !.timerRef = 0,
                   !.calls = Append(@, "clearTimeout")]
    ELSE s

\* Faulty variant: no fallback; undefined is taken by setTimeout as 0.
currentInterval_NoFallback(index) ==
  IF index + 1 \in DOMAIN PROGRESSIVE_INTERVALS
    THEN PROGRESSIVE_INTERVALS[index + 1]
    ELSE 0

\* PROGRESSIVE_INTERVALS[index] || 1000: an index outside the array reads
\* undefined, and undefined (like 0) is falsy.
currentInterval(index) ==
  IF index + 1 \in DOMAIN PROGRESSIVE_INTERVALS /\ PROGRESSIVE_INTERVALS[index + 1] # 0
    THEN PROGRESSIVE_INTERVALS[index + 1]
    ELSE FallbackInterval

\* Faulty variant: arms without releasing the handle it holds.
scheduleNextRender_NoClear(s) == setTimeout(s, currentInterval(s.intervalIndexRef))

\* scheduleNextRender: clearTimer(); timerRef.current = setTimeout(cb, currentInterval)
scheduleNextRender(s) ==
  setTimeout(clearTimer(s), currentInterval(s.intervalIndexRef))

\* Faulty variant: the index is advanced past the last entry.
advanceInterval_NoFloor(s) ==
  [s EXCEPT !.intervalIndexRef = @ + 1, !.calls = Append(@, "index++")]

\* Faulty variant: the index is never advanced.
advanceInterval_Never(s) == s

\* if (intervalIndexRef.current < PROGRESSIVE_INTERVALS.length - 1) intervalIndexRef.current++
advanceInterval(s) ==
  IF s.intervalIndexRef < IntervalsLength - 1
    THEN [s EXCEPT !.intervalIndexRef = @ + 1, !.calls = Append(@, "index++")]
    ELSE s

\* Faulty variant: the redraw is requested after re-arming.
timerCallback_InvalidateLast(s) == invalidate(scheduleNextRender(advanceInterval(s)))

\* Faulty variant: the callback re-arms before it advances the index.
timerCallback_ArmFirst(s) == advanceInterval(scheduleNextRender(invalidate(s)))

\* Faulty variant: the callback does not re-arm.
timerCallback_Once(s) == advanceInterval(invalidate(s))

\* The callback given to setTimeout: invalidate(); advance; scheduleNextRender()
timerCallback(s) == scheduleNextRender(advanceInterval(invalidate(s)))

\* resetToFastRendering
resetToFastRendering(s) ==
  invalidate(
    scheduleNextRender(
      clearTimer([s EXCEPT !.intervalIndexRef = 0, !.isActiveRef = TRUE])))

\* Faulty variant: only the flag is tested.
handleUserInteraction_ActiveOnly(s) ==
  IF ~s.isActiveRef THEN resetToFastRendering(s) ELSE s

\* Faulty variant: no short-circuit.
handleUserInteraction_Always(s) == resetToFastRendering(s)

\* handleUserInteraction: reset unless already active at index 0
handleUserInteraction(s) ==
  IF ~s.isActiveRef \/ s.intervalIndexRef > 0
    THEN resetToFastRendering(s)
    ELSE s

\* Faulty variant: focus goes through the interaction policy.
handleFocus_ShortCircuit(s) == handleUserInteraction(s)

\* handleFocus
handleFocus(s) == resetToFastRendering(s)

\* Faulty variant: blur requests a redraw.
handleBlur_Redraw(s) == invalidate([s EXCEPT !.isActiveRef = FALSE])

\* Faulty variant: blur also cancels the pending timeout.
handleBlur_Cancel(s) == clearTimer([s EXCEPT !.isActiveRef = FALSE])

\* handleBlur
handleBlur(s) == [s EXCEPT !.isActiveRef = FALSE]

\* Faulty variant: the reset event goes through the interaction policy.
handleHMR_ShortCircuit(s) == handleUserInteraction(s)

\* The listener of on("self:request-reset-error-boundary", ...)
handleHMR(s) == resetToFastRendering(s)

\* Faulty variant: the effect marks the scheduler active before it arms.
startEffect_Activate(s) == scheduleNextRender([s EXCEPT !.isActiveRef = TRUE])

\* Faulty variant: the effect starts with a reset, hence a redraw request.
startEffect_Redraw(s) == resetToFastRendering(s)

\* The effect's first statement: scheduleNextRender()
startEffect(s) == scheduleNextRender(s)

\* Faulty variant: the cleanup also marks the scheduler inactive.
cleanupEffect_Deactivate(s) == [clearTimer(s) EXCEPT !.isActiveRef = FALSE]

\* Faulty variant: the cleanup requests a last redraw.
cleanupEffect_Invalidate(s) == invalidate(clearTimer(s))

\* Faulty variant: the cleanup also rewinds the index.
cleanupEffect_ResetIndex(s) == [clearTimer(s) EXCEPT !.intervalIndexRef = 0]

\* The cleanup's first statement: clearTimer()
cleanupEffect(s) == clearTimer(s)

\* window.addEventListener for focus, blur and every interaction event
addEventListeners(ls) == ls \cup WindowEvents

\* Faulty variant: the focus listener is left attached.
removeEventListeners_KeepFocus(ls) == ls \ ({"blur"} \cup interactionEvents)

\* window.removeEventListener for the same names
removeEventListeners(ls) == ls \ WindowEvents

\* ------------------------------------------------------------------------
\* Helpers of the actions
\* ------------------------------------------------------------------------

\* Delay of the timeout timerRef.current names (0 when there is none).
ArmedDelay(s) ==
  IF \E t \in s.timers : t.id = s.timerRef
    THEN (CHOOSE t \in s.timers : t.id = s.timerRef).delay
    ELSE 0

\* A handler that calls setTimeout is explored while ids remain.
CanArm == nextTimerId <= MaxTimers

Init ==
  /\ timerRef = 0
  /\ intervalIndexRef = 0
  /\ isActiveRef = TRUE
  /\ timers = {}
  /\ nextTimerId = 1
  /\ listeners = {}
  /\ hmrSubscribed = FALSE
  /\ phase = "constructed"
  /\ startCount = 0
  /\ invalidateCount = 0
  /\ armed = <<>>
  /\ chainFrom = [op |-> "none", index |-> 0]
  /\ calls = <<>>
  /\ last = [op |-> "init", index |-> 0, active |-> TRUE, timers |-> {}]

\* ------------------------------------------------------------------------
\* Actions
\* ------------------------------------------------------------------------

\* The effect runs: on mount, and again after a cleanup when one of its
\* dependencies changed (the refs survive a re-run).
Start ==
  /\ phase \in {"constructed", "torndown"}
  /\ startCount < MaxStarts
  /\ CanArm
  /\ LET s == startEffect(Cur) IN
       /\ Commit(s)
       /\ armed' = <<ArmedDelay(s)>>
       /\ chainFrom' = [op |-> IF startCount = 0 THEN "start" ELSE "restart",
                        index |-> s.intervalIndexRef]
  /\ hmrSubscribed' = TRUE
  /\ listeners' = addEventListeners(listeners)
  /\ phase' = "started"
  /\ startCount' = startCount + 1
  /\ last' = Ran("start")

\* The effect's cleanup.
Teardown ==
  /\ phase = "started"
  /\ Commit(cleanupEffect(Cur))
  /\ hmrSubscribed' = FALSE
  /\ listeners' = removeEventListeners(listeners)
  /\ phase' = "torndown"
  /\ last' = Ran("teardown")
  /\ UNCHANGED <<startCount, armed, chainFrom>>

\* Time passes: up to the moment a pending timeout is due, or half of that.
\* No timeout is overrun.
Tick ==
  /\ timers # {}
  /\ \E d \in {t.delay - t.elapsed : t \in timers}
               \cup {(t.delay - t.elapsed) \div 2 : t \in timers} :
       /\ d > 0
       /\ \A t \in timers : t.elapsed + d <= t.delay
       /\ timers' = {[t EXCEPT !.elapsed = @ + d] : t \in timers}
  /\ last' = Ran("tick")
  /\ calls' = <<>>
  /\ UNCHANGED <<timerRef, intervalIndexRef, isActiveRef, nextTimerId, listeners,
                 hmrSubscribed, phase, startCount, invalidateCount, armed, chainFrom>>

\* A due timeout fires: the runtime drops it and runs its callback.
TimerFire ==
  /\ CanArm
  /\ \E t \in timers :
       /\ t.elapsed = t.delay
       /\ LET s == timerCallback([Cur EXCEPT !.timers = @ \ {t}]) IN
            /\ Commit(s)
            /\ armed' = Append(armed, ArmedDelay(s))
  /\ last' = Ran("fire")
  /\ UNCHANGED <<listeners, hmrSubscribed, phase, startCount, chainFrom>>

\* A handler that armed a timeout started a new chain.
Chain(s) ==
  IF s.nextTimerId # nextTimerId
    THEN /\ armed' = <<ArmedDelay(s)>>
         /\ chainFrom' = [op |-> "reset", index |-> s.intervalIndexRef]
    ELSE UNCHANGED <<armed, chainFrom>>

\* The window dispatches an interaction event; without a listener nothing runs.
UserInteraction ==
  /\ CanArm
  /\ \E ev \in interactionEvents :
       IF ev \in listeners
         THEN LET s == handleUserInteraction(Cur) IN
                /\ Commit(s)
                /\ Chain(s)
                /\ last' = Ran("interaction")
         ELSE /\ Commit(Cur)
              /\ last' = Ran("dropped")
              /\ UNCHANGED <<armed, chainFrom>>
  /\ UNCHANGED <<listeners, hmrSubscribed, phase, startCount>>

\* The window dispatches focus.
Focus ==
  /\ CanArm
  /\ IF "focus" \in listeners
       THEN LET s == handleFocus(Cur) IN
              /\ Commit(s)
              /\ Chain(s)
              /\ last' = Ran("focus")
       ELSE /\ Commit(Cur)
            /\ last' = Ran("dropped")
            /\ UNCHANGED <<armed, chainFrom>>
  /\ UNCHANGED <<listeners, hmrSubscribed, phase, startCount>>

\* The window dispatches blur.
Blur ==
  /\ IF "blur" \in listeners
       THEN /\ Commit(handleBlur(Cur))
            /\ last' = Ran("blur")
       ELSE /\ Commit(Cur)
            /\ last' = Ran("dropped")
  /\ UNCHANGED <<listeners, hmrSubscribed, phase, startCount, armed, chainFrom>>

\* The bridge emits "self:request-reset-error-boundary".
HMRReset ==
  /\ CanArm
  /\ IF hmrSubscribed
       THEN LET s == handleHMR(Cur) IN
              /\ Commit(s)
              /\ Chain(s)
              /\ last' = Ran("hmr")
       ELSE /\ Commit(Cur)
            /\ last' = Ran("dropped")
            /\ UNCHANGED <<armed, chainFrom>>
  /\ UNCHANGED <<listeners, hmrSubscribed, phase, startCount>>

Next ==
  \/ Start
  \/ Teardown
  \/ Tick
  \/ TimerFire
  \/ UserInteraction
  \/ Focus
  \/ Blur
  \/ HMRReset

Spec == Init /\ [][Next]_vars

TypeOK ==
  /\ timerRef \in 0..MaxTimers
  /\ intervalIndexRef \in 0..(IntervalsLength - 1)
  /\ isActiveRef \in BOOLEAN
  /\ nextTimerId \in 1..(MaxTimers + 1)
  /\ listeners \subseteq WindowEvents
  /\ hmrSubscribed \in BOOLEAN
  /\ phase \in {"constructed", "started", "torndown"}
  /\ startCount \in 0..MaxStarts
  /\ invalidateCount \in 0..MaxTimers

\* ------------------------------------------------------------------------
\* Properties
\* ------------------------------------------------------------------------

Min(a, b) == IF a < b THEN a ELSE b

\* PROGRESSIVE_INTERVALS[i] for a 0-based i inside the array.
Table(i) == PROGRESSIVE_INTERVALS[i + 1]

LastIndex == IntervalsLength - 1

\* The one timeout a handler leaves pending after it armed with delay d.
Fresh(d) == {[id |-> nextTimerId, delay |-> d, elapsed |-> 0]}

\* What resetToFastRendering must have done in a step.
DidReset ==
  /\ intervalIndexRef' = 0
  /\ isActiveRef' = TRUE
  /\ invalidateCount' = invalidateCount + 1
  /\ timers' = Fresh(Table(0))
  /\ timerRef' = nextTimerId

\* What a handler that does nothing leaves alone.
DidNothing ==
  UNCHANGED <<timerRef, intervalIndexRef, isActiveRef, timers, nextTimerId,
              invalidateCount>>

\* C1 -- Single-timer invariant: in every reachable state at most one timeout
\* is pending, and a pending timeout is the one timerRef.current names (no
\* cancelled or orphaned timeout is left to fire); a step that arms a timeout
\* leaves only the new one pending.
C1_SingleTimer ==
  /\ Cardinality(timers) <= 1
  /\ \A t \in timers : t.id = timerRef /\ t.id < nextTimerId /\ t.elapsed <= t.delay
  /\ timerRef # 0 => \E t \in timers : t.id = timerRef

\* A reset replaced a timeout that was still pending.
C1_Witness ==
  /\ last.op \in {"hmr", "focus", "interaction"}
  /\ \E t \in last.timers : t.elapsed > 0 /\ t.elapsed < t.delay /\ t.id # timerRef
  /\ Cardinality(timers) = 1

\* C2 -- Teardown: once torn down no timeout is pending, and no step taken
\* while torn down (dropped focus, blur, interaction or reset events, time
\* passing) requests a redraw or arms a timeout.
C2_Teardown ==
  /\ [](phase = "torndown" => timers = {} /\ timerRef = 0)
  /\ [][phase = "torndown" /\ phase' = "torndown"
          => invalidateCount' = invalidateCount /\ timers' = {}]_vars

\* An event arrived after a teardown that had cancelled a timeout.
C2_Witness ==
  /\ phase = "torndown"
  /\ last.op = "dropped"
  /\ invalidateCount > 0
  /\ nextTimerId > 1

\* C3 (as stated) -- the Nth delay armed in a chain is
\* PROGRESSIVE_INTERVALS[min(N-1, length-1)], for every chain begun by a run
\* of the effect or by a reset.
C3_SlowdownFromZero ==
  \A n \in 1..Len(armed) : armed[n] = Table(Min(n - 1, LastIndex))

\* C3 (amended) -- the Nth delay armed in a chain is
\* PROGRESSIVE_INTERVALS[min(b + N-1, length-1)] where b is the index the
\* chain began at; b = 0 for the first run of the effect and for every reset;
\* the delays never decrease and stay at the last entry once they reach it.
C3_Slowdown ==
  /\ \A n \in 1..Len(armed) :
       armed[n] = Table(Min(chainFrom.index + n - 1, LastIndex))
  /\ chainFrom.op \in {"start", "reset"} => chainFrom.index = 0
  /\ \A m, n \in 1..Len(armed) : m <= n => armed[m] <= armed[n]
  /\ \A m, n \in 1..Len(armed) :
       m <= n /\ armed[m] = Table(LastIndex) => armed[n] = Table(LastIndex)

\* A chain ran from index 0 past the end of the table.
C3_Witness ==
  /\ chainFrom = [op |-> "start", index |-> 0]
  /\ Len(armed) > IntervalsLength + 1
  /\ armed[Len(armed)] = Table(LastIndex)
  /\ armed[Len(armed) - 1] = Table(LastIndex)

\* C4 -- Instant reset: an interaction handled while inactive or at an index
\* above 0 requests exactly one redraw, sets the index to 0 and the flag to
\* true, and leaves exactly one timeout pending, freshly armed with
\* PROGRESSIVE_INTERVALS[0], whatever the index and the old timeout were.
C4_InstantReset ==
  [][last'.op = "interaction" /\ (~isActiveRef \/ intervalIndexRef > 0) => DidReset]_vars

\* An interaction reset an active scheduler that had slowed down, while its
\* old timeout was part-way through its delay.
C4_Witness ==
  /\ last.op = "interaction"
  /\ last.active
  /\ last.index > 1
  /\ \E t \in last.timers : t.elapsed > 0 /\ t.elapsed < t.delay
  /\ timers = {[id |-> timerRef, delay |-> Table(0), elapsed |-> 0]}

\* C5 -- No-op fast path: an interaction handled while active at index 0
\* requests no redraw and leaves index, flag, timerRef and the pending
\* timeout (with its elapsed time) as they were.
C5_NoOpFastPath ==
  [][last'.op = "interaction" /\ isActiveRef /\ intervalIndexRef = 0 => DidNothing]_vars

\* An interaction was short-circuited while the timeout was part-way through.
C5_Witness ==
  /\ last.op = "interaction"
  /\ last.active
  /\ last.index = 0
  /\ \E t \in timers : t.elapsed > 0 /\ t.elapsed < t.delay
  /\ timers = last.timers

\* C6 (as stated) -- a focus event handled while active at index 0 is a
\* no-op, as an interaction event is.
C6_FocusNoOp ==
  [][last'.op = "focus" /\ isActiveRef /\ intervalIndexRef = 0 => DidNothing]_vars

\* C6 (amended) -- a handled focus event always goes through
\* resetToFastRendering, also while active at index 0: one redraw request,
\* index 0, flag true, the pending timeout replaced by a fresh one armed with
\* PROGRESSIVE_INTERVALS[0].
C6_FocusResets ==
  [][last'.op = "focus" => DidReset /\ \A t \in timers : t \notin timers']_vars

\* Focus arrived while active at index 0 with the timeout part-way through.
C6_Witness ==
  /\ last.op = "focus"
  /\ last.active
  /\ last.index = 0
  /\ \E t \in last.timers : t.elapsed > 0 /\ t.elapsed < t.delay
  /\ timers = {[id |-> timerRef, delay |-> Table(0), elapsed |-> 0]}

\* C7 -- Quiescence is passive: a handled blur sets the flag to false and
\* changes nothing else (no redraw, same index, same pending timeout with the
\* same elapsed time); and what a timer fire does next is a function of the
\* index alone, so the delays that follow are those of the run without blur.
C7_BlurPassive ==
  /\ [][last'.op = "blur"
          => /\ isActiveRef' = FALSE
             /\ UNCHANGED <<timerRef, intervalIndexRef, timers, nextTimerId,
                            invalidateCount, armed, chainFrom>>]_vars
  /\ [][last'.op = "fire"
          => /\ isActiveRef' = isActiveRef
             /\ intervalIndexRef' = Min(intervalIndexRef + 1, LastIndex)
             /\ timers' = Fresh(Table(Min(intervalIndexRef + 1, LastIndex)))]_vars

\* After a blur the chain went on slowing down.
C7_Witness ==
  /\ last.op = "fire"
  /\ ~isActiveRef
  /\ ~last.active
  /\ Len(armed) >= 4
  /\ intervalIndexRef = last.index + 1

\* C8 -- External reset bypasses the short-circuit: a handled reset
\* notification always resets, also while active at index 0: index 0, flag
\* true, one redraw request, exactly one pending timeout freshly armed with
\* PROGRESSIVE_INTERVALS[0], and the timeout pending before is gone for good
\* (its id is below every id handed out later).
C8_ExternalReset ==
  [][last'.op = "hmr"
       => /\ DidReset
          /\ \A t \in timers : t.id < nextTimerId /\ \A u \in timers' : u.id > t.id]_vars

\* The reset notification arrived while active at index 0, timeout part-way.
C8_Witness ==
  /\ last.op = "hmr"
  /\ last.active
  /\ last.index = 0
  /\ \E t \in last.timers : t.elapsed > 0 /\ t.elapsed < t.delay /\ t.id < timerRef
  /\ timers = {[id |-> timerRef, delay |-> Table(0), elapsed |-> 0]}

\* C9 -- Initial cadence: the first run of the effect leaves index 0, flag
\* true and exactly one pending timeout armed with PROGRESSIVE_INTERVALS[0];
\* no run of the effect requests a redraw; and the first redraw request made
\* by a timer fire comes when PROGRESSIVE_INTERVALS[0] ms have elapsed.
C9_InitialCadence ==
  /\ [][last'.op = "start"
          => /\ invalidateCount' = invalidateCount
             /\ startCount = 0
                  => /\ intervalIndexRef' = 0
                     /\ isActiveRef' = TRUE
                     /\ invalidateCount' = 0
                     /\ timers' = Fresh(Table(0))]_vars
  /\ [][last'.op = "fire" /\ invalidateCount = 0
          => \E t \in timers : t.delay = Table(0) /\ t.elapsed = Table(0)]_vars

\* The first redraw request of a run came from the first timer fire.
C9_Witness ==
  /\ last.op = "fire"
  /\ startCount = 1
  /\ invalidateCount = 1
  /\ \E t \in last.timers : t.id = 1 /\ t.elapsed = Table(0)

\* The runtime lets time pass and runs the callback of a due timeout.
LiveSpec == Init /\ [][Next]_vars /\ WF_vars(Tick) /\ WF_vars(TimerFire)

\* C10 -- The chain never ends on its own: while the effect is started
\* exactly one timeout is pending; a pending timeout only disappears without
\* replacement in the cleanup; and, as long as the explored ids last, a
\* started scheduler always gets to a further redraw request unless it is
\* torn down first.
C10_NeverTerminates ==
  /\ [](phase = "started" => Cardinality(timers) = 1)
  /\ [][timers # {} /\ timers' = {} => last'.op = "teardown"]_vars
  /\ \A k \in 0..MaxTimers :
       (phase = "started" /\ CanArm /\ invalidateCount = k)
         ~> (invalidateCount > k \/ phase = "torndown")

\* The chain ran on at the floor interval.
C10_Witness ==
  /\ phase = "started"
  /\ last.op = "fire"
  /\ last.index = LastIndex
  /\ Cardinality(timers) = 1
  /\ invalidateCount >= IntervalsLength

\* A step in which resetToFastRendering ran.
ResetStep ==
  \/ last'.op \in {"hmr", "focus"}
  \/ last'.op = "interaction" /\ (~isActiveRef \/ intervalIndexRef > 0)

\* C11 -- Cursor bounds: the index always lies in 0..length-1; it changes
\* only by +1 in a timer fire below the last index, or to 0 in a reset; a
\* timer fire at the last index leaves it there.
C11_CursorBounds ==
  /\ [](intervalIndexRef \in 0..LastIndex)
  /\ [][intervalIndexRef' # intervalIndexRef
          => \/ /\ last'.op = "fire"
                /\ intervalIndexRef < LastIndex
                /\ intervalIndexRef' = intervalIndexRef + 1
             \/ ResetStep /\ intervalIndexRef' = 0]_vars
  /\ [][last'.op = "fire" /\ intervalIndexRef = LastIndex
          => intervalIndexRef' = LastIndex]_vars

\* A timer fired at the last index and the index stayed.
C11_Witness ==
  /\ last.op = "fire"
  /\ last.index = LastIndex
  /\ intervalIndexRef = LastIndex

\* C12 -- A timer fire does, in this order: one invalidate(), the index
\* advance iff the index is below the last one, the release of the fired
\* handle and one setTimeout with the delay of the (possibly advanced) index;
\* the flag is not touched.
C12_TimerFireSteps ==
  [][last'.op = "fire"
       => /\ calls' = IF intervalIndexRef < LastIndex
                        THEN <<"invalidate", "index++", "clearTimeout", "setTimeout">>
                        ELSE <<"invalidate", "clearTimeout", "setTimeout">>
          /\ invalidateCount' = invalidateCount + 1
          /\ intervalIndexRef' =
               IF intervalIndexRef < LastIndex THEN intervalIndexRef + 1
                                               ELSE intervalIndexRef
          /\ timers' = Fresh(Table(intervalIndexRef'))
          /\ isActiveRef' = isActiveRef]_vars

\* A timer fired at index 1 while inactive and armed the delay of index 2.
C12_Witness ==
  /\ last.op = "fire"
  /\ last.index = 1
  /\ ~last.active
  /\ ~isActiveRef
  /\ calls = <<"invalidate", "index++", "clearTimeout", "setTimeout">>
  /\ timers = {[id |-> timerRef, delay |-> Table(2), elapsed |-> 0]}

\* C13 (as stated) -- after every run of the effect, also a re-run that
\* follows a blur and a cleanup, the flag is true.
C13_ActiveAfterStart == last.op = "start" => isActiveRef

\* C13 (amended) -- a run of the effect does not write the flag: it is true
\* after the first run (the ref is created true) and after a re-run it is
\* what it was before, false when a blur preceded the cleanup.
C13_StartKeepsFlag ==
  [][last'.op = "start"
       => /\ isActiveRef' = isActiveRef
          /\ startCount = 0 => isActiveRef' = TRUE]_vars

\* The effect ran again after a blur and a cleanup; the flag is still false.
C13_Witness ==
  /\ last.op = "start"
  /\ startCount = 2
  /\ ~last.active
  /\ ~isActiveRef
  /\ phase = "started"

\* C14 -- The flag goes from true to false only in the blur handler, and
\* every step that runs resetToFastRendering leaves it true.
C14_OnlyBlurDeactivates ==
  /\ [][isActiveRef /\ ~isActiveRef' => last'.op = "blur"]_vars
  /\ [][ResetStep => isActiveRef' = TRUE]_vars

\* An interaction reset a scheduler that a blur had made inactive.
C14_Witness ==
  /\ last.op = "interaction"
  /\ ~last.active
  /\ isActiveRef
  /\ "invalidate" \in {calls[i] : i \in DOMAIN calls}

\* C15 -- start() is idempotent: running the effect's start on a started
\* scheduler keeps the index and the flag, requests no redraw and leaves
\* exactly one pending timeout, armed with the delay of the current index,
\* which is the delay the timeout pending before was armed with.
C15_StartIdempotent ==
  phase = "started"
    => LET again == startEffect(Cur) IN
         /\ again.intervalIndexRef = intervalIndexRef
         /\ again.isActiveRef = isActiveRef
         /\ again.invalidateCount = invalidateCount
         /\ again.timers = Fresh(currentInterval(intervalIndexRef))
         /\ again.timerRef = nextTimerId
         /\ ArmedDelay(again) = ArmedDelay(Cur)
         /\ again.calls = <<"clearTimeout", "setTimeout">>

\* A started scheduler that slowed down, its timeout part-way through.
C15_Witness ==
  /\ phase = "started"
  /\ intervalIndexRef >= 2
  /\ \E t \in timers : t.elapsed > 0 /\ t.elapsed < t.delay
  /\ Cardinality(startEffect(Cur).timers) = 1

\* C16 -- Double teardown is a no-op: on a torn-down scheduler the cleanup
\* finds no handle to clear and no listener to remove; index, flag, pending
\* timeouts and the number of redraw requests stay as they are.
C16_DoubleTeardown ==
  phase = "torndown"
    => /\ cleanupEffect(Cur) = Cur
       /\ removeEventListeners(listeners) = listeners
       /\ timers = {}
       /\ ~hmrSubscribed

\* Torn down after a blur, with a pending timeout cancelled at index > 0.
C16_Witness ==
  /\ phase = "torndown"
  /\ last.op = "teardown"
  /\ last.timers # {}
  /\ intervalIndexRef > 0
  /\ ~isActiveRef
  /\ cleanupEffect(Cur).intervalIndexRef = intervalIndexRef

\* C17 -- In every reachable state the pending timeout was armed with
\* PROGRESSIVE_INTERVALS[index] for the current index, and a step that
\* changes the index leaves a timeout freshly armed for the new index.
C17_DelayMatchesCursor ==
  /\ [](\A t \in timers : t.delay = Table(intervalIndexRef))
  /\ [][intervalIndexRef' # intervalIndexRef
          => timers' = Fresh(Table(intervalIndexRef'))]_vars

\* A slowed-down chain with its timeout part-way through.
C17_Witness ==
  /\ intervalIndexRef >= 3
  /\ last.op = "tick"
  /\ \E t \in timers :
       t.elapsed > 0 /\ t.elapsed < t.delay /\ t.delay = Table(intervalIndexRef)

\* C18 -- The cleanup leaves index and flag as they are and requests no
\* redraw; a run of the effect keeps the index, requests no redraw and arms
\* PROGRESSIVE_INTERVALS[index], so a re-run resumes at the delay of the
\* index reached before the cleanup, not at PROGRESSIVE_INTERVALS[0].
C18_TeardownKeepsRefs ==
  /\ [][last'.op = "teardown"
          => UNCHANGED <<intervalIndexRef, isActiveRef, invalidateCount>>]_vars
  /\ [][last'.op = "start"
          => /\ UNCHANGED <<intervalIndexRef, isActiveRef, invalidateCount>>
             /\ timers' = Fresh(Table(intervalIndexRef))]_vars

\* The effect ran again at index >= 2 and armed that index's delay.
C18_Witness ==
  /\ last.op = "start"
  /\ startCount = 2
  /\ intervalIndexRef >= 2
  /\ timers = {[id |-> timerRef, delay |-> Table(intervalIndexRef), elapsed |-> 0]}
  /\ Table(intervalIndexRef) # Table(0)

\* C19 -- Redraw accounting: a step raises the number of redraw requests by
\* one when it is a timer fire or runs resetToFastRendering, and by nothing
\* otherwise (start, blur, short-circuited interaction, cleanup, dropped
\* event, time passing); every timeout but those armed by a start came with
\* one redraw request.
C19_RedrawAccounting ==
  /\ [](invalidateCount + startCount = nextTimerId - 1)
  /\ [][invalidateCount' =
          invalidateCount + (IF last'.op = "fire" \/ ResetStep THEN 1 ELSE 0)]_vars

\* After fires, a reset, a re-run and a short-circuited interaction.
C19_Witness ==
  /\ last.op = "interaction"
  /\ last.active
  /\ last.index = 0
  /\ startCount = 2
  /\ invalidateCount >= 3
  /\ calls = <<>>

\* The refs as any caller could have left them: the index anywhere up to one
\* past the last entry of the array.
ClampInit ==
  /\ timerRef = 0
  /\ intervalIndexRef \in 0..IntervalsLength
  /\ isActiveRef = TRUE
  /\ timers = {}
  /\ nextTimerId = 1
  /\ listeners = {}
  /\ hmrSubscribed = FALSE
  /\ phase = "constructed"
  /\ startCount = 0
  /\ invalidateCount = 0
  /\ armed = <<>>
  /\ chainFrom = [op |-> "none", index |-> 0]
  /\ calls = <<>>
  /\ last = [op |-> "init", index |-> 0, active |-> TRUE, timers |-> {}]

ClampSpec == ClampInit /\ [][Next]_vars

\* C20 -- Defensive clamp: the delay looked up when arming is never absent
\* or 0; for an index one past the last valid one it is the floor interval,
\* the last entry of the array.
C20_DefensiveClamp ==
  /\ currentInterval(intervalIndexRef) > 0
  /\ \A t \in timers :
       /\ t.delay > 0
       /\ t.delay = Table(Min(intervalIndexRef, LastIndex))
       /\ intervalIndexRef = IntervalsLength => t.delay = Table(LastIndex)

\* A timeout was armed by a fire while the index was one past the end.
C20_Witness ==
  /\ intervalIndexRef = IntervalsLength
  /\ last.op = "fire"
  /\ last.index = IntervalsLength
  /\ timers = {[id |-> timerRef, delay |-> Table(LastIndex), elapsed |-> 0]}

====
